---------------------------- MODULE Spec2Model ----------------------------
(***************************************************************************)
(* Model of the income-rank script (load_data, get_percentile_rank and     *)
(* the bracket resolution of the main content area).                       *)
(*                                                                         *)
(* Conventions.                                                            *)
(*  - A string of the program is a sequence of one-character strings.      *)
(*    The Hangul syllables of the labels are written romanised, one        *)
(*    element per syllable: "sang","wi" is the token for "top",            *)
(*    "ha","wi" the token for "bottom", "bun","wi" the bracket suffix,     *)
(*    "hap","gye" the word "total".                                        *)
(*  - The columns of the frame are romanised the same way: gubun (label),  *)
(*    inwon (head count), geunrosodeuk (income amount), manwon (income     *)
(*    per person in units of ten thousand), percentile_rank.               *)
(*  - A float of the program is an exact rational <<n, d>> in lowest terms *)
(*    with d > 0; rounding of binary floating point is not modelled.       *)
(***************************************************************************)
EXTENDS Integers, Sequences, FiniteSets, TLC

\* Longest file read from disk, in rows.
MaxRows == 3

----------------------------------------------------------------------------
\* Exact arithmetic standing for the program's floats.

Abs(n) == IF n < 0 THEN -n ELSE n

RECURSIVE Gcd(_, _)
Gcd(a, b) == IF b = 0 THEN a ELSE Gcd(b, a % b)

Norm(n, d) ==
    LET g == Gcd(Abs(n), Abs(d))
        s == IF d < 0 THEN -1 ELSE 1
    IN  <<(s * n) \div g, (s * d) \div g>>

Num(n) == <<n, 1>>

Add(p, q) ==
    LET g == Gcd(p[2], q[2])
    IN  Norm(p[1] * (q[2] \div g) + q[1] * (p[2] \div g), (p[2] \div g) * q[2])

Neg(p) == <<-p[1], p[2]>>

Sub(p, q) == Add(p, Neg(q))

Mul(p, q) ==
    LET a == Norm(p[1], q[2])
        b == Norm(q[1], p[2])
    IN  <<a[1] * b[1], a[2] * b[2]>>

Div(p, q) == Mul(p, Norm(q[2], q[1]))

Less(p, q) == p[1] * q[2] < q[1] * p[2]

Leq(p, q) == p[1] * q[2] <= q[1] * p[2]

\* max(a, b) and min(a, b) of Python on two floats.
PyMax(p, q) == IF Less(p, q) THEN q ELSE p

PyMin(p, q) == IF Less(q, p) THEN q ELSE p

----------------------------------------------------------------------------
\* Strings.

Digits == {"0", "1", "2", "3", "4", "5", "6", "7", "8", "9"}

DigitValue(c) ==
    CASE c = "0" -> 0 [] c = "1" -> 1 [] c = "2" -> 2 [] c = "3" -> 3
      [] c = "4" -> 4 [] c = "5" -> 5 [] c = "6" -> 6 [] c = "7" -> 7
      [] c = "8" -> 8 [] c = "9" -> 9

\* sub in s
Contains(s, sub) ==
    \E i \in 1..(Len(s) - Len(sub) + 1) : SubSeq(s, i, i + Len(sub) - 1) = sub

\* Index of the last character of the run of digits of s that starts at i
\* (i - 1 when s[i] is no digit): the greedy \d* of the pattern.
RECURSIVE DigitRunEnd(_, _)
DigitRunEnd(s, i) ==
    IF i <= Len(s) /\ s[i] \in Digits THEN DigitRunEnd(s, i + 1) ELSE i - 1

\* re.search(r'(\d+\.?\d*)', s): the leftmost match, as <<first, last>>
\* indices into s, or <<>> when s holds no digit.
re_search(s) ==
    LET starts == {i \in 1..Len(s) : s[i] \in Digits}
    IN  IF starts = {} THEN <<>>
        ELSE LET first  == CHOOSE i \in starts : \A j \in starts : i <= j
                 intEnd == DigitRunEnd(s, first)
                 last   == IF intEnd < Len(s) /\ s[intEnd + 1] = "."
                           THEN DigitRunEnd(s, intEnd + 2)
                           ELSE intEnd
             IN  <<first, last>>

\* Value of a run of digits read as a decimal integer.
RECURSIVE DecimalValue(_)
DecimalValue(ds) ==
    IF ds = <<>> THEN 0
    ELSE 10 * DecimalValue(SubSeq(ds, 1, Len(ds) - 1)) + DigitValue(ds[Len(ds)])

RECURSIVE Pow10(_)
Pow10(k) == IF k = 0 THEN 1 ELSE 10 * Pow10(k - 1)

\* float(text) for a text of the shape digits [ "." digits ].
float(text) ==
    LET dots == {i \in 1..Len(text) : text[i] = "."}
    IN  IF dots = {} THEN Num(DecimalValue(text))
        ELSE LET dot  == CHOOSE i \in dots : TRUE
                 frac == SubSeq(text, dot + 1, Len(text))
             IN  Add(Num(DecimalValue(SubSeq(text, 1, dot - 1))),
                     Norm(DecimalValue(frac), Pow10(Len(frac))))

----------------------------------------------------------------------------
\* get_percentile_rank, nested in load_data.

TOP == <<"sang", "wi">>

BOTTOM == <<"ha", "wi">>

\* Variant: the bottom token tested before the top token.
get_percentile_rank_swapped(s) ==
    LET match == re_search(s)
    IN  IF match # <<>>
        THEN LET value == float(SubSeq(s, match[1], match[2]))
             IN  IF Contains(s, BOTTOM) THEN value
                 ELSE IF Contains(s, TOP) THEN Sub(Num(100), value)
                 ELSE Mul(Div(value, Num(1000)), Num(100))
        ELSE Num(-1)

get_percentile_rank(s) ==
    LET match == re_search(s)
    IN  IF match # <<>>
        THEN LET value == float(SubSeq(s, match[1], match[2]))
             IN  IF Contains(s, TOP) THEN Sub(Num(100), value)
                 ELSE IF Contains(s, BOTTOM) THEN value
                 ELSE Mul(Div(value, Num(1000)), Num(100))
        ELSE Num(-1)

----------------------------------------------------------------------------
\* The file read by pd.read_csv: rows of (gubun, inwon, geunrosodeuk).
\* An empty field is read as missing: the empty string for a label, NaN for
\* a number.

NaN == <<0, 0>>

\* Series.isna on a text column and on a numeric column.
isna_text(s) == s = <<>>

isna(v) == v = NaN

RawRow(label, count, amount) ==
    [gubun |-> label, inwon |-> count, geunrosodeuk |-> amount]

RawRows ==
    { RawRow(<<"ha", "wi", " ", "5", "%">>, Num(1), Norm(12, 100)),
      RawRow(<<"ha", "wi", " ", "4", "5", "%">>, Num(1), Norm(30, 100)),
      RawRow(<<"9", "5", "0", "bun", "wi">>, Num(1), Norm(80, 100)),
      RawRow(<<"sang", "wi", " ", "1", "%">>, Num(2), Norm(60, 100)),
      RawRow(<<"1", "0", "0", "bun", "wi">>, Num(0), Norm(50, 100)),
      RawRow(<<"sang", "wi", " ", "0", ".", "1", "%", " ", "(",
               "ha", "wi", " ", "9", "9", ".", "9", "%", ")">>,
             Num(1), Num(1)),
      RawRow(<<"hap", "gye">>, Num(1), Norm(80, 100)),
      RawRow(<<"2", "0", "0", "0", "bun", "wi">>, Num(1), Norm(50, 100)),
      RawRow(<<>>, Num(1), Norm(30, 100)) }

CsvFiles == UNION {[1..n -> RawRows] : n \in 0..MaxRows}

\* Values typed into st.number_input (an integer, min_value = 0).
UserIncomes == {0, 500, 1200, 2000, 3000, 5000, 8000, 9000, 12000}

----------------------------------------------------------------------------
\* load_data.

\* df.dropna()
dropna(rows) ==
    SelectSeq(rows, LAMBDA r :
        ~isna_text(r.gubun) /\ ~isna(r.inwon) /\ ~isna(r.geunrosodeuk))

\* The lambda of the df.apply call: amount / count if count > 0 else 0.
per_person(row) ==
    IF row.inwon[1] > 0 THEN Div(row.geunrosodeuk, row.inwon) ELSE Num(0)

\* The derived columns of one row.
with_columns(row) ==
    [gubun           |-> row.gubun,
     inwon           |-> row.inwon,
     geunrosodeuk    |-> row.geunrosodeuk,
     manwon          |-> Mul(per_person(row), Num(10000)),
     percentile_rank |-> get_percentile_rank(row.gubun)]

\* Order of sort_values(by = [manwon, percentile_rank], ascending = True).
RowLeq(a, b) ==
    \/ Less(a.manwon, b.manwon)
    \/ a.manwon = b.manwon /\ Leq(a.percentile_rank, b.percentile_rank)

\* r placed behind every row that is not above it: rows of equal keys keep
\* the order of the file (the lexsort behind a multi-column sort is stable).
InsertRow(sorted, r) ==
    LET before == {i \in 1..Len(sorted) : RowLeq(sorted[i], r)}
        k      == IF before = {} THEN 0
                  ELSE CHOOSE i \in before : \A j \in before : j <= i
    IN  SubSeq(sorted, 1, k) \o <<r>> \o SubSeq(sorted, k + 1, Len(sorted))

RECURSIVE sort_values(_)
sort_values(rows) ==
    IF rows = <<>> THEN <<>>
    ELSE InsertRow(sort_values(SubSeq(rows, 1, Len(rows) - 1)), rows[Len(rows)])

load_data(file) ==
    LET kept == dropna(file)
    IN  sort_values([i \in 1..Len(kept) |-> with_columns(kept[i])])

----------------------------------------------------------------------------
\* The main content area: bracket resolution of one user_income against df.

\* A comparison of floats: false as soon as a side is NaN.
FLess(p, q) == p # NaN /\ q # NaN /\ Less(p, q)

income_values(table) == [i \in 1..Len(table) |-> table[i].manwon]

percentile_ranks(table) == [i \in 1..Len(table) |-> table[i].percentile_rank]

\* Series.min() and Series.max() of the income column: NaN on no rows.
min_income_data(table) ==
    IF table = <<>> THEN NaN
    ELSE LET xs == income_values(table)
         IN  xs[CHOOSE i \in 1..Len(xs) : \A j \in 1..Len(xs) : Leq(xs[i], xs[j])]

max_income_data(table) ==
    IF table = <<>> THEN NaN
    ELSE LET xs == income_values(table)
         IN  xs[CHOOSE i \in 1..Len(xs) : \A j \in 1..Len(xs) : Leq(xs[j], xs[i])]

\* df[df[manwon] >= user_income].index, as a set of positions (ascending).
\* Variant: > in place of >=.
upper_bound_indices_strict(table, income) ==
    {i \in 1..Len(table) : Less(Num(income), table[i].manwon)}

upper_bound_indices(table, income) ==
    {i \in 1..Len(table) : Leq(Num(income), table[i].manwon)}

\* df[df[manwon] < user_income].index
lower_bound_indices(table, income) ==
    {i \in 1..Len(table) : Less(table[i].manwon, Num(income))}

First(idx) == CHOOSE i \in idx : \A j \in idx : i <= j

Last(idx) == CHOOSE i \in idx : \A j \in idx : j <= i

\* np.interp(x, xp, fp) for a scalar x, as numpy's compiled routine computes
\* it: the end values outside the points; inside, j is the last index with
\* xp[j] <= x (a binary search), the answer is fp[j] when j is the last index
\* or xp[j] = x, and slope * (x - xp[j]) + fp[j] otherwise.
\* Variant: the search keeps the first index with xp[j] >= x.
np_interp_left(x, xp, fp) ==
    LET n == Len(xp)
    IN  IF Less(xp[n], x) THEN fp[n]
        ELSE IF Less(x, xp[1]) THEN fp[1]
        ELSE LET j == First({i \in 1..n : Leq(x, xp[i])})
             IN  IF xp[j] = x THEN fp[j]
                 ELSE LET slope == Div(Sub(fp[j], fp[j - 1]), Sub(xp[j], xp[j - 1]))
                      IN  Add(Mul(slope, Sub(x, xp[j - 1])), fp[j - 1])

\* Variant: the segment is offset from its upper end.
np_interp_from_upper(x, xp, fp) ==
    LET n == Len(xp)
    IN  IF Less(xp[n], x) THEN fp[n]
        ELSE IF Less(x, xp[1]) THEN fp[1]
        ELSE LET j == Last({i \in 1..n : Leq(xp[i], x)})
             IN  IF j = n \/ xp[j] = x THEN fp[j]
                 ELSE LET slope == Div(Sub(fp[j + 1], fp[j]), Sub(xp[j + 1], xp[j]))
                      IN  Add(Mul(slope, Sub(x, xp[j])), fp[j + 1])

np_interp(x, xp, fp) ==
    LET n == Len(xp)
    IN  IF Less(xp[n], x) THEN fp[n]
        ELSE IF Less(x, xp[1]) THEN fp[1]
        ELSE LET j == Last({i \in 1..n : Leq(xp[i], x)})
             IN  IF j = n \/ xp[j] = x THEN fp[j]
                 ELSE LET slope == Div(Sub(fp[j + 1], fp[j]), Sub(xp[j + 1], xp[j]))
                      IN  Add(Mul(slope, Sub(x, xp[j])), fp[j])

\* max(0.0, min(100.0, estimate))
clip(estimate) == PyMax(Num(0), PyMin(Num(100), estimate))

\* Variant: the estimate left unclipped.
interpolated_estimate_unclipped(table, income) ==
    np_interp(Num(income), income_values(table), percentile_ranks(table))

\* The estimate of the two in-range branches.
interpolated_estimate(table, income) ==
    clip(np_interp(Num(income), income_values(table), percentile_ranks(table)))

Result(kind, nearest, lower, upper, estimate) ==
    [outcome                  |-> kind,
     nearest                  |-> nearest,
     lower_bound_row          |-> lower,
     upper_bound_row          |-> upper,
     user_percentile_estimate |-> estimate]

\* Nothing reported: the state of the page before a resolution.
NoResult == Result("none", <<>>, <<>>, <<>>, <<>>)

\* Variant: the rank of the nearest row as the estimate.
below_range_first_rank(table, income) ==
    Result("below", <<table[1].gubun>>, <<>>, <<>>, table[1].percentile_rank)

\* if user_income_mw < min_income_data
below_range(table, income) ==
    Result("below", <<table[1].gubun>>, <<>>, <<>>, Num(0))

\* Variant: the rank of the nearest row as the estimate.
above_range_last_rank(table, income) ==
    Result("above", <<table[Len(table)].gubun>>, <<>>, <<>>,
           table[Len(table)].percentile_rank)

\* elif user_income_mw > max_income_data
above_range(table, income) ==
    Result("above", <<table[Len(table)].gubun>>, <<>>, <<>>, Num(100))

\* else: the bounding rows and the interpolation.  upper_bound_indices[0]
\* raises IndexError on an empty index.
in_range(table, income) ==
    LET upper == upper_bound_indices(table, income)
        lower == lower_bound_indices(table, income)
    IN  IF upper = {} THEN Result("IndexError", <<>>, <<>>, <<>>, <<>>)
        ELSE IF lower # {}
        THEN Result("between", <<>>, <<table[Last(lower)]>>,
                    <<table[First(upper)]>>, interpolated_estimate(table, income))
        ELSE Result("first", <<>>, <<>>,
                    <<table[First(upper)]>>, interpolated_estimate(table, income))

\* The body of 'if user_income > 0'.
resolve(table, income) ==
    IF FLess(Num(income), min_income_data(table)) THEN below_range(table, income)
    ELSE IF FLess(max_income_data(table), Num(income)) THEN above_range(table, income)
    ELSE in_range(table, income)

----------------------------------------------------------------------------
\* The script as a state machine: one load of the file (cached afterwards),
\* then one run of the page per value the user enters.

VARIABLES csv, df, phase, user_income, result

vars == <<csv, df, phase, user_income, result>>

Init ==
    /\ csv = <<>>
    /\ df = <<>>
    /\ phase = "start"
    /\ user_income = 0
    /\ result = NoResult

\* df = load_data()
LoadData ==
    /\ phase = "start"
    /\ \E file \in CsvFiles :
          /\ csv' = file
          /\ df' = load_data(file)
    /\ phase' = "loaded"
    /\ UNCHANGED <<user_income, result>>

\* With no row left after dropna, df.apply(..., axis = 1) returns a frame and
\* not a column; pandas versions differ on whether assigning it to the new
\* column raises.  LoadData covers the versions that accept it.
LoadDataRaises ==
    /\ phase = "start"
    /\ \E file \in CsvFiles :
          /\ dropna(file) = <<>>
          /\ csv' = file
    /\ phase' = "load_error"
    /\ UNCHANGED <<df, user_income, result>>

\* One run of the page with the cached df.
Rerun ==
    /\ phase \in {"loaded", "shown"}
    /\ \E income \in UserIncomes :
          /\ user_income' = income
          /\ result' = IF income > 0 THEN resolve(df, income) ELSE NoResult
    /\ phase' = "shown"
    /\ UNCHANGED <<csv, df>>

Next == LoadData \/ LoadDataRaises \/ Rerun

Spec == Init /\ [][Next]_vars

TypeOK ==
    /\ phase \in {"start", "load_error", "loaded", "shown"}
    /\ user_income \in UserIncomes
    /\ Len(df) <= MaxRows

----------------------------------------------------------------------------
\* Vocabulary of the properties.

\* A resolution has run: the page was rendered with a positive income.
Resolved == phase = "shown" /\ user_income > 0

Loaded == phase \in {"loaded", "shown"}

Estimate == result.user_percentile_estimate

\* Positions of the rows whose value is exactly the income entered.
RowsAtIncome == {i \in 1..Len(df) : df[i].manwon = Num(user_income)}

\* The label holds no numeric substring.
Malformed(label) == \A i \in 1..Len(label) : label[i] \notin Digits

InUnitRange(r) == Leq(Num(0), r) /\ Leq(r, Num(100))

Clamped(r) ==
    IF Less(r, Num(0)) THEN Num(0) ELSE IF Less(Num(100), r) THEN Num(100) ELSE r

\* The ranks do not decrease along the table (the values never do).
RanksAscending ==
    \A i, j \in 1..Len(df) :
        i < j => Leq(df[i].percentile_rank, df[j].percentile_rank)

WithinRange ==
    /\ df # <<>>
    /\ Leq(df[1].manwon, Num(user_income))
    /\ Leq(Num(user_income), df[Len(df)].manwon)

\* lower.rank + (query - lower.value) / (upper.value - lower.value)
\*            * (upper.rank - lower.rank)
LinearBetween(lower, upper, query) ==
    Add(lower.percentile_rank,
        Mul(Div(Sub(query, lower.manwon), Sub(upper.manwon, lower.manwon)),
            Sub(upper.percentile_rank, lower.percentile_rank)))

----------------------------------------------------------------------------
\* C1 (as stated): a query equal to the value of a row of rank r is estimated
\* at r, for every row carrying that value.
C1_EveryRowAtIncome ==
    Resolved =>
        \A i \in RowsAtIncome : Estimate = df[i].percentile_rank

\* C1 (amended): a query equal to the value of some row is estimated at the
\* rank of the last row of the sorted table carrying that value, clamped to
\* [0,100]; so it is r for a row of rank r that is the last of its value and
\* has 0 <= r <= 100.
C1_LastRowAtIncome ==
    Resolved /\ RowsAtIncome # {} =>
        /\ Estimate = Clamped(df[Last(RowsAtIncome)].percentile_rank)
        /\ InUnitRange(df[Last(RowsAtIncome)].percentile_rank)
              => Estimate = df[Last(RowsAtIncome)].percentile_rank

C1_Witness ==
    /\ Resolved
    /\ \E i, j \in RowsAtIncome :
          /\ i < j
          /\ j = Last(RowsAtIncome)
          /\ df[i].percentile_rank # df[j].percentile_rank
          /\ Estimate = df[j].percentile_rank

\* C2 (as stated): no row of the working table comes from a label without a
\* numeric substring.
C2_MalformedRowsExcluded ==
    Loaded => \A i \in 1..Len(df) : ~Malformed(df[i].gubun)

\* C3 (as stated): every row of the working table has its percentile_rank in
\* [0,100].
C3_RankInUnitRange ==
    Loaded => \A i \in 1..Len(df) : InUnitRange(df[i].percentile_rank)

\* C4: a query below every value of a non-empty table takes the below-range
\* outcome, names the first row as nearest and is estimated at exactly 0.
C4_BelowRange ==
    Resolved /\ df # <<>> /\ (\A i \in 1..Len(df) : Less(Num(user_income), df[i].manwon)) =>
        /\ result.outcome = "below"
        /\ result.nearest = <<df[1].gubun>>
        /\ Estimate = Num(0)

C4_Witness ==
    /\ Resolved
    /\ result.outcome = "below"
    /\ Len(df) >= 2
    /\ df[1].percentile_rank # Num(0)

\* C5: a query above every value of a non-empty table takes the above-range
\* outcome, names the last row as nearest and is estimated at exactly 100.
C5_AboveRange ==
    Resolved /\ df # <<>> /\ (\A i \in 1..Len(df) : Less(df[i].manwon, Num(user_income))) =>
        /\ result.outcome = "above"
        /\ result.nearest = <<df[Len(df)].gubun>>
        /\ Estimate = Num(100)

C5_Witness ==
    /\ Resolved
    /\ result.outcome = "above"
    /\ Len(df) >= 2
    /\ df[Len(df)].percentile_rank # Num(100)

\* C6: on a table whose ranks ascend with its values, the estimate does not
\* decrease with the query, across the below-range, in-range and above-range
\* outcomes.
C6_Monotone ==
    Resolved /\ df # <<>> /\ RanksAscending =>
        \A q \in UserIncomes \ {0} :
            /\ q < user_income =>
                  Leq(resolve(df, q).user_percentile_estimate, Estimate)
            /\ q > user_income =>
                  Leq(Estimate, resolve(df, q).user_percentile_estimate)

C6_Witness ==
    /\ Resolved
    /\ RanksAscending
    /\ Len(df) >= 3
    /\ result.outcome = "between"
    /\ Less(Num(0), Estimate) /\ Less(Estimate, Num(100))
    /\ \E q \in UserIncomes \ {0} : resolve(df, q).outcome = "below"
    /\ \E q \in UserIncomes \ {0} : resolve(df, q).outcome = "above"
    /\ \E q \in UserIncomes \ {0} :
          /\ resolve(df, q).outcome = "between"
          /\ Less(Estimate, resolve(df, q).user_percentile_estimate)

\* The (value, rank) pairs of the table [(1200,5), (3000,45), (8000,95)].
ScenarioTable ==
    /\ Len(df) = 3
    /\ df[1].manwon = Num(1200) /\ df[1].percentile_rank = Num(5)
    /\ df[2].manwon = Num(3000) /\ df[2].percentile_rank = Num(45)
    /\ df[3].manwon = Num(8000) /\ df[3].percentile_rank = Num(95)

\* C7 (as stated): with a lower bound reported, the estimate is the linear
\* interpolation between the reported lower row and the reported upper row,
\* clamped to [0,100].
C7_BetweenReportedRows ==
    Resolved /\ result.outcome = "between" =>
        Estimate = Clamped(LinearBetween(result.lower_bound_row[1],
                                         result.upper_bound_row[1],
                                         Num(user_income)))

\* C7 (amended): with a lower bound reported and the query strictly below
\* the value of the reported upper row, the estimate is the linear
\* interpolation between the two reported rows, clamped to [0,100]; with the
\* query equal to the value of the upper row it is the clamped rank of the
\* last row of the table carrying that value, which is the upper row when no
\* other row shares its value.  On [(1200,5), (3000,45), (8000,95)] the query
\* 2000 is estimated at 5 + 800/1800 * 40 = 205/9.
C7_BetweenOrLastTied ==
    /\ Resolved /\ result.outcome = "between" =>
          LET lower == result.lower_bound_row[1]
              upper == result.upper_bound_row[1]
          IN  IF Less(Num(user_income), upper.manwon)
              THEN Estimate = Clamped(LinearBetween(lower, upper, Num(user_income)))
              ELSE /\ Estimate = Clamped(df[Last(RowsAtIncome)].percentile_rank)
                   /\ Cardinality(RowsAtIncome) = 1
                         => Estimate = Clamped(upper.percentile_rank)
    /\ Resolved /\ ScenarioTable /\ user_income = 2000 =>
          /\ result.lower_bound_row = <<df[1]>>
          /\ result.upper_bound_row = <<df[2]>>
          /\ Estimate = Norm(205, 9)

C7_Witness ==
    /\ Resolved
    /\ ScenarioTable
    /\ user_income = 2000
    /\ result.outcome = "between"
    /\ Estimate = Norm(205, 9)

\* C8: with v the first numeric substring of the label, a label holding the
\* top token gets 100 - v (also when it holds the bottom token too), a label
\* holding only the bottom token gets v, any other label gets v / 1000 * 100:
\* "top 1%" gets 99, "bottom 5%" gets 5, the bare index 100 gets 10, and
\* "top 0.1% (bottom 99.9%)" gets 99.9.
C8_LabelNormalization ==
    Loaded =>
        \A i \in 1..Len(df) :
            LET s == df[i].gubun
                r == df[i].percentile_rank
            IN  /\ s = <<"sang", "wi", " ", "1", "%">> => r = Num(99)
                /\ s = <<"ha", "wi", " ", "5", "%">> => r = Num(5)
                /\ s = <<"ha", "wi", " ", "4", "5", "%">> => r = Num(45)
                /\ s = <<"1", "0", "0", "bun", "wi">> => r = Num(10)
                /\ s = <<"9", "5", "0", "bun", "wi">> => r = Num(95)
                /\ s = <<"2", "0", "0", "0", "bun", "wi">> => r = Num(200)
                /\ Contains(s, TOP) /\ Contains(s, BOTTOM) => r = Norm(999, 10)
                /\ ~Malformed(s) =>
                      LET m == re_search(s)
                          v == float(SubSeq(s, m[1], m[2]))
                      IN  /\ Contains(s, TOP) => Add(r, v) = Num(100)
                          /\ ~Contains(s, TOP) /\ Contains(s, BOTTOM) => r = v
                          /\ ~Contains(s, TOP) /\ ~Contains(s, BOTTOM)
                                => Mul(r, Num(10)) = v

C8_Witness ==
    /\ Loaded
    /\ \E i, j, k \in 1..Len(df) :
          /\ Contains(df[i].gubun, TOP) /\ Contains(df[i].gubun, BOTTOM)
          /\ df[i].percentile_rank = Norm(999, 10)
          /\ df[j].gubun = <<"ha", "wi", " ", "5", "%">>
          /\ df[j].percentile_rank = Num(5)
          /\ df[k].gubun = <<"1", "0", "0", "bun", "wi">>
          /\ df[k].percentile_rank = Num(10)

\* C9 (as stated): with no usable row in the table (none, or only rows whose
\* label has no number) a resolution fails: it produces no below-range,
\* above-range or in-range outcome and no estimate.
C9_EmptyTableFails ==
    Resolved /\ (\A i \in 1..Len(df) : Malformed(df[i].gubun)) =>
        /\ result.outcome \notin {"below", "above", "between", "first"}
        /\ Estimate = <<>>

=============================================================================
